---- MODULE Spec2Model ----
(***************************************************************************)
(* AppleMIDI (RTP-MIDI) session participant of mt32-pi:                    *)
(* src/src/net/applemidi.cpp, src/include/net/applemidi.h.                 *)
(*                                                                         *)
(* One step of the model is one iteration of the loop in                   *)
(* CAppleMIDIParticipant::Run: both sockets are polled, the handler of the *)
(* current state runs to completion, and the task yields.  Datagrams and   *)
(* frames are byte sequences; the parsers and senders work on the bytes.   *)
(* The clock is read once per iteration: it advances only while the task   *)
(* is suspended in Yield.                                                  *)
(* 32-bit wire values are kept below 2^31 (the range of TLC's integers);   *)
(* 64-bit values are numerals of eight base-256 digits.                    *)
(***************************************************************************)
EXTENDS Integers, Sequences, FiniteSets, TLC

(***************************************************************************)
(* Bounds of the model.                                                    *)
(***************************************************************************)
\* number of times the clock moves forward between two iterations
MaxAdvances == 1

(***************************************************************************)
(* Program constants.                                                      *)
(***************************************************************************)
AppleMIDISignature == 65535
AppleMIDIVersion == 2
RTPMIDIPayloadType == 97
RTPMIDIVersion == 2
SyncTimeout == 600000
ReceiverFeedbackPeriod == 10000

\* TAppleMIDICommand = CommandWord("IN"), ("OK"), ("CK"), ("RS"), ("BY")
Invitation == 18766
InvitationAccepted == 20299
Sync == 17227
ReceiverFeedback == 21075
EndSession == 16985

\* sizeof(TAppleMIDIInvitation) - sizeof(Name), sizeof(TAppleMIDIEndSession),
\* sizeof(TAppleMIDISync)
SizeWithoutName == 16
SizeofEndSession == 16
SizeofSync == 36

(***************************************************************************)
(* Byte order conversions.  A buffer is a sequence of bytes; offsets are   *)
(* zero-based as in the source.                                            *)
(***************************************************************************)
htons(v) == <<v \div 256, v % 256>>
htonl(v) == <<v \div 16777216, (v \div 65536) % 256, (v \div 256) % 256, v % 256>>
ntohs(buf, off) == buf[off + 1] * 256 + buf[off + 2]
ntohl(buf, off) ==
    buf[off + 1] * 16777216 + buf[off + 2] * 65536 + buf[off + 3] * 256 + buf[off + 4]
\* a u64 is kept as its eight big-endian digits, so ntohll is a slice
ntohll(buf, off) == SubSeq(buf, off + 1, off + 8)
htonll(v) == v

\* u64 value of a small natural number
U64(n) == <<0, 0, 0, 0>> \o htonl(n)
U64Zero == U64(0)

RECURSIVE U64AddFrom(_, _, _, _)
\* digits i..1 of a + b (mod 2^64), least significant digit is digit 8
U64AddFrom(a, b, i, carry) ==
    IF i = 0 THEN <<>>
    ELSE LET s == a[i] + b[i] + carry
         IN  Append(U64AddFrom(a, b, i - 1, s \div 256), s % 256)
U64Add(a, b) == U64AddFrom(a, b, 8, 0)

RECURSIVE U64SubFrom(_, _, _, _)
U64SubFrom(a, b, i, borrow) ==
    IF i = 0 THEN <<>>
    ELSE LET d == a[i] - b[i] - borrow
         IN  Append(U64SubFrom(a, b, i - 1, IF d < 0 THEN 1 ELSE 0), (d + 256) % 256)
U64Sub(a, b) == U64SubFrom(a, b, 8, 0)

RECURSIVE U64HalfFrom(_, _, _)
\* a / 2: digits i..8, rem is the bit shifted out of digit i-1
U64HalfFrom(a, i, rem) ==
    IF i = 9 THEN <<>>
    ELSE LET v == rem * 256 + a[i]
         IN  <<v \div 2>> \o U64HalfFrom(a, i + 1, v % 2)
U64Half(a) == U64HalfFrom(a, 1, 0)

(***************************************************************************)
(* Parsers.  Each returns a record with field ok = the bool result and the *)
(* fields written to the out packet.                                       *)
(***************************************************************************)
Failed == [ok |-> FALSE]

\* strncpy(pOutPacket->Name, pBuffer + 16, 256): bytes up to the first NUL
RECURSIVE CStr(_, _)
CStr(buf, i) ==
    IF i > Len(buf) \/ buf[i] = 0 THEN <<>> ELSE <<buf[i]>> \o CStr(buf, i + 1)

UnknownName == <<60, 117, 110, 107, 110, 111, 119, 110, 62>>

\* mutant: the protocol version is not checked
ParseInvitationPacket_NoVersion(pBuffer, nSize) ==
    IF nSize < SizeWithoutName THEN Failed
    ELSE IF ntohs(pBuffer, 0) # AppleMIDISignature THEN Failed
    ELSE IF ntohs(pBuffer, 2) # Invitation THEN Failed
    ELSE [ok |-> TRUE,
          nSignature |-> ntohs(pBuffer, 0),
          nCommand |-> ntohs(pBuffer, 2),
          nVersion |-> ntohl(pBuffer, 4),
          nInitiatorToken |-> ntohl(pBuffer, 8),
          nSSRC |-> ntohl(pBuffer, 12),
          Name |-> IF nSize > SizeWithoutName THEN CStr(pBuffer, 17) ELSE UnknownName]

ParseInvitationPacket(pBuffer, nSize) ==
    IF nSize < SizeWithoutName THEN Failed
    ELSE IF ntohs(pBuffer, 0) # AppleMIDISignature THEN Failed
    ELSE IF ntohs(pBuffer, 2) # Invitation THEN Failed
    ELSE IF ntohl(pBuffer, 4) # AppleMIDIVersion THEN Failed
    ELSE [ok |-> TRUE,
          nSignature |-> ntohs(pBuffer, 0),
          nCommand |-> ntohs(pBuffer, 2),
          nVersion |-> ntohl(pBuffer, 4),
          nInitiatorToken |-> ntohl(pBuffer, 8),
          nSSRC |-> ntohl(pBuffer, 12),
          Name |-> IF nSize > SizeWithoutName THEN CStr(pBuffer, 17) ELSE UnknownName]

ParseEndSessionPacket(pBuffer, nSize) ==
    IF nSize < SizeofEndSession THEN Failed
    ELSE IF ntohs(pBuffer, 0) # AppleMIDISignature THEN Failed
    ELSE IF ntohs(pBuffer, 2) # EndSession THEN Failed
    ELSE IF ntohl(pBuffer, 4) # AppleMIDIVersion THEN Failed
    ELSE [ok |-> TRUE,
          nSignature |-> ntohs(pBuffer, 0),
          nCommand |-> ntohs(pBuffer, 2),
          nVersion |-> ntohl(pBuffer, 4),
          nInitiatorToken |-> ntohl(pBuffer, 8),
          nSSRC |-> ntohl(pBuffer, 12)]

ParseSyncPacket(pBuffer, nSize) ==
    IF nSize # SizeofSync THEN Failed
    ELSE IF ntohs(pBuffer, 0) # AppleMIDISignature THEN Failed
    ELSE IF ntohs(pBuffer, 2) # Sync THEN Failed
    ELSE [ok |-> TRUE,
          nSignature |-> ntohs(pBuffer, 0),
          nCommand |-> ntohs(pBuffer, 2),
          nSSRC |-> ntohl(pBuffer, 4),
          nCount |-> pBuffer[9],
          nTimestamps |-> <<ntohll(pBuffer, 12), ntohll(pBuffer, 20), ntohll(pBuffer, 28)>>]

\* *(pBuffer + i) for a buffer of which only the first Len(pBuffer) bytes were
\* received: a read past them returns whatever the buffer held before
Peek(pBuffer, i, stale) == IF i >= 0 /\ i < Len(pBuffer) THEN pBuffer[i + 1] ELSE stale

\* the n bytes from pBuffer + i on
PeekRange(pBuffer, i, n, stale) ==
    [j \in 1 .. n |-> Peek(pBuffer, i + j - 1, stale)]

\* mutant: a first segment is recognised by its head alone
SysExFixup_HeadOnly(pMIDIData, nMIDIDataSize, nHead, nTail) ==
    IF nHead = 240
    THEN [pMIDIData |-> pMIDIData, nMIDIDataSize |-> (nMIDIDataSize + 65535) % 65536]
    ELSE IF nHead = 247 /\ nTail = 240
    THEN [pMIDIData |-> pMIDIData + 1, nMIDIDataSize |-> (nMIDIDataSize + 65534) % 65536]
    ELSE IF nHead = 247 /\ nTail = 247
    THEN [pMIDIData |-> pMIDIData + 1, nMIDIDataSize |-> (nMIDIDataSize + 65535) % 65536]
    ELSE IF nHead = 247 /\ nTail = 244
    THEN [pMIDIData |-> pMIDIData, nMIDIDataSize |-> 1]
    ELSE [pMIDIData |-> pMIDIData, nMIDIDataSize |-> nMIDIDataSize]

\* the SysEx branches of ParseMIDIPacket on (pMIDIData, nMIDIDataSize), the
\* size being a u16
SysExFixup(pMIDIData, nMIDIDataSize, nHead, nTail) ==
    IF nHead = 240 /\ nTail = 240
    THEN [pMIDIData |-> pMIDIData, nMIDIDataSize |-> (nMIDIDataSize + 65535) % 65536]
    ELSE IF nHead = 247 /\ nTail = 240
    THEN [pMIDIData |-> pMIDIData + 1, nMIDIDataSize |-> (nMIDIDataSize + 65534) % 65536]
    ELSE IF nHead = 247 /\ nTail = 247
    THEN [pMIDIData |-> pMIDIData + 1, nMIDIDataSize |-> (nMIDIDataSize + 65535) % 65536]
    ELSE IF nHead = 247 /\ nTail = 244
    THEN [pMIDIData |-> pMIDIData, nMIDIDataSize |-> 1]
    ELSE [pMIDIData |-> pMIDIData, nMIDIDataSize |-> nMIDIDataSize]

ParseMIDIPacket(pBuffer, nSize, stale) ==
    LET nRTPFlags == Peek(pBuffer, 0, stale) * 256 + Peek(pBuffer, 1, stale)
    IN  IF (nRTPFlags \div 16384) % 4 # RTPMIDIVersion THEN Failed
        ELSE IF (nRTPFlags \div 256) % 16 # 0 THEN Failed
        ELSE IF nRTPFlags % 256 # RTPMIDIPayloadType THEN Failed
        ELSE LET nHeader == Peek(pBuffer, 12, stale)
                 bFlag == (nHeader \div 128) = 1
                 pData0 == IF bFlag THEN 14 ELSE 13
                 nSize0 == IF bFlag
                           THEN ((nHeader % 16) * 256) + Peek(pBuffer, 13, stale)
                           ELSE nHeader % 16
                 nHead == Peek(pBuffer, pData0, stale)
                 nTail == Peek(pBuffer, pData0 + nSize0 - 1, stale)
                 fix == SysExFixup(pData0, nSize0, nHead, nTail)
             IN  [ok |-> TRUE,
                  nFlags |-> nRTPFlags,
                  nSequence |-> Peek(pBuffer, 2, stale) * 256 + Peek(pBuffer, 3, stale),
                  pMIDIData |-> fix.pMIDIData,
                  nMIDIDataSize |-> fix.nMIDIDataSize]

(***************************************************************************)
(* State.                                                                  *)
(***************************************************************************)
VARIABLES
    this,     \* the members of the CAppleMIDIParticipant object
    clock,    \* the value GetSyncClock() returns
    running,  \* FALSE once Run has returned
    sent,     \* the SendTo calls of the latest iteration, in order
    sink,     \* the calls of the MIDI receive handler in the latest iteration
    log       \* the messages written to the logger in the latest iteration

vars == <<this, clock, running, sent, sink, log>>

GetSyncClock == clock

\* a handler works on the object and on the outputs of the iteration
Machine(t) == [this |-> t, sent |-> <<>>, sink |-> <<>>, log |-> <<>>]

Write(m, msg) == [m EXCEPT !.log = Append(@, msg)]

(***************************************************************************)
(* Senders.  SendTo's result is an input of the iteration: "ok" (all bytes *)
(* sent), "short" (fewer bytes sent) or "error" (a negative result).       *)
(***************************************************************************)
SendOutcomes == {"ok", "short", "error"}

SendTo(nSize, outcome) ==
    IF outcome = "error" THEN 0 - 1 ELSE IF outcome = "short" THEN nSize - 1 ELSE nSize

\* returns [m, ret]: the machine after the call and the bool result
SendPacket(m, pSocket, nPort, pData, outcome) ==
    LET nSize == Len(pData)
        nResult == SendTo(nSize, outcome)
        call == [socket |-> pSocket, ip |-> m.this.m_InitiatorIPAddress, port |-> nPort,
                 data |-> pData, result |-> nResult]
        m1 == [m EXCEPT !.sent = Append(@, call)]
    IN  IF nResult < 0 THEN [m |-> Write(m1, "Send failure, error code"), ret |-> FALSE]
        ELSE IF nResult # nSize
        THEN [m |-> Write(m1, "Send failure, bytes sent"), ret |-> FALSE]
        ELSE [m |-> m1, ret |-> TRUE]

\* "mt32-pi" and its terminating NUL
LocalName == <<109, 116, 51, 50, 45, 112, 105, 0>>

\* the pSocket argument is not used: the packet goes out of m_pControlSocket
SendAcceptInvitationPacket(m, pSocket, nPort, outcome) ==
    LET AcceptPacket == htons(AppleMIDISignature) \o htons(InvitationAccepted)
                        \o htonl(AppleMIDIVersion) \o htonl(m.this.m_nInitiatorToken)
                        \o htonl(m.this.m_nSSRC) \o LocalName
    IN  SendPacket(m, "control", nPort, AcceptPacket, outcome)

SendSyncPacket(m, nTimestamp1, nTimestamp2, outcome) ==
    LET SyncPacket == htons(AppleMIDISignature) \o htons(Sync) \o htonl(m.this.m_nSSRC)
                      \o <<1, 0, 0, 0>>
                      \o htonll(nTimestamp1) \o htonll(nTimestamp2) \o U64Zero
    IN  SendPacket(m, "control", m.this.m_nInitiatorMIDIPort, SyncPacket, outcome)

\* mutant: the sequence number is not shifted into the high bytes
FeedbackSequence_NoShift(m) == <<0, 0>> \o htons(m.this.m_nSequence)

\* htonl(m_nSequence << 16): the sequence number in the two high bytes
FeedbackSequence(m) == htons(m.this.m_nSequence) \o <<0, 0>>

\* mutant: the feedback carries the initiator's SSRC instead of the local one
SendFeedbackPacket_PeerSSRC(m, outcome) ==
    LET FeedbackPacket == htons(AppleMIDISignature) \o htons(ReceiverFeedback)
                          \o htonl(m.this.m_nInitiatorSSRC)
                          \o FeedbackSequence(m)
    IN  SendPacket(m, "control", m.this.m_nInitiatorMIDIPort, FeedbackPacket, outcome)

\* the RS frame, sent through the control socket to the initiator's MIDI port
SendFeedbackPacket(m, outcome) ==
    LET FeedbackPacket == htons(AppleMIDISignature) \o htons(ReceiverFeedback)
                          \o htonl(m.this.m_nSSRC)
                          \o FeedbackSequence(m)
    IN  SendPacket(m, "control", m.this.m_nInitiatorMIDIPort, FeedbackPacket, outcome)

(***************************************************************************)
(* State handlers.                                                         *)
(***************************************************************************)
\* mutant: the last acknowledged sequence number survives
Reset_KeepsFeedbackSequence(m) ==
    [m EXCEPT !.this.m_State = "ControlInvitation",
              !.this.m_nInitiatorToken = 0,
              !.this.m_nInitiatorSSRC = 0,
              !.this.m_nSSRC = 0,
              !.this.m_nLastMIDISequenceNumber = 0,
              !.this.m_nOffsetEstimate = U64Zero,
              !.this.m_nLastSyncTime = 0,
              !.this.m_nSequence = 0,
              !.this.m_nLastFeedbackTime = 0]

Reset(m) ==
    [m EXCEPT !.this.m_State = "ControlInvitation",
              !.this.m_nInitiatorToken = 0,
              !.this.m_nInitiatorSSRC = 0,
              !.this.m_nSSRC = 0,
              !.this.m_nLastMIDISequenceNumber = 0,
              !.this.m_nOffsetEstimate = U64Zero,
              !.this.m_nLastSyncTime = 0,
              !.this.m_nSequence = 0,
              !.this.m_nLastFeedbackSequence = 0,
              !.this.m_nLastFeedbackTime = 0]

\* mutant: the control invitation alone connects
EnterMIDIInvitation_Connects(m) ==
    [m EXCEPT !.this.m_nLastSyncTime = GetSyncClock,
              !.this.m_State = "Connected"]

\* the control invitation was accepted
EnterMIDIInvitation(m) ==
    [m EXCEPT !.this.m_nLastSyncTime = GetSyncClock,
              !.this.m_State = "MIDIInvitation"]

\* random: the value m_pRandom->GetNumber() returns in this iteration
ControlInvitationState(m, random, outcome) ==
    IF m.this.m_nControlResult = 0 THEN m
    ELSE LET InvitationPacket ==
                 ParseInvitationPacket(m.this.m_ControlBuffer, m.this.m_nControlResult)
         IN  IF ~InvitationPacket.ok THEN Write(m, "Unexpected packet")
             ELSE LET m1 == [m EXCEPT
                                !.this.m_nInitiatorToken = InvitationPacket.nInitiatorToken,
                                !.this.m_nInitiatorSSRC = InvitationPacket.nSSRC,
                                !.this.m_nSSRC = random]
                      s == SendAcceptInvitationPacket(m1, "control",
                                                      m1.this.m_nInitiatorControlPort, outcome)
                  IN  IF ~s.ret THEN Write(s.m, "Couldn't accept control invitation")
                      ELSE EnterMIDIInvitation(s.m)

MIDIInvitationState(m, outcome) ==
    IF m.this.m_nMIDIResult > 0
    THEN LET InvitationPacket ==
                 ParseInvitationPacket(m.this.m_MIDIBuffer, m.this.m_nMIDIResult)
         IN  IF ~InvitationPacket.ok THEN Write(m, "Unexpected packet")
             ELSE LET s == SendAcceptInvitationPacket(m, "midi",
                                                      m.this.m_nInitiatorMIDIPort, outcome)
                  IN  IF s.ret
                      THEN [Write(s.m, "Connection established")
                               EXCEPT !.this.m_nLastSyncTime = GetSyncClock,
                                      !.this.m_State = "Connected"]
                      ELSE Reset(Write(s.m, "Couldn't accept MIDI invitation"))
    ELSE IF GetSyncClock - m.this.m_nLastSyncTime > SyncTimeout
    THEN Reset(Write(m, "MIDI port invitation timed out"))
    ELSE m

\* mutant: the count of the sync packet is not looked at
SyncAccepted_AnyCount(m, SyncPacket) ==
    SyncPacket.nSSRC = m.this.m_nInitiatorSSRC

\* the sync packet is accepted
SyncAccepted(m, SyncPacket) ==
    SyncPacket.nSSRC = m.this.m_nInitiatorSSRC /\ SyncPacket.nCount \in {0, 2}

\* mutant: the mean of the initiator's timestamps is not halved
OffsetEstimate_NoHalf(SyncPacket) ==
    U64Sub(U64Add(SyncPacket.nTimestamps[3], SyncPacket.nTimestamps[1]),
           SyncPacket.nTimestamps[2])

\* ((nTimestamps[2] + nTimestamps[0]) / 2) - nTimestamps[1] on u64
OffsetEstimate(SyncPacket) ==
    U64Sub(U64Half(U64Add(SyncPacket.nTimestamps[3], SyncPacket.nTimestamps[1])),
           SyncPacket.nTimestamps[2])

\* mutant: the time of the last sync is taken from the peer's timestamp
StampSync_PeerTime(m, SyncPacket) ==
    [m EXCEPT !.this.m_nLastSyncTime = ntohl(SyncPacket.nTimestamps[1], 4)]

\* an accepted sync packet refreshes the time of the last sync
StampSync(m, SyncPacket) ==
    [m EXCEPT !.this.m_nLastSyncTime = GetSyncClock]

\* the branch of ConnectedState for a datagram on the MIDI socket
ConnectedMIDI(m, outcome, stale) ==
    LET MIDIPacket == ParseMIDIPacket(m.this.m_MIDIBuffer, m.this.m_nMIDIResult, stale)
        SyncPacket == ParseSyncPacket(m.this.m_MIDIBuffer, m.this.m_nMIDIResult)
    IN  IF MIDIPacket.ok
        THEN LET m1 == [m EXCEPT !.this.m_nSequence = MIDIPacket.nSequence]
             IN  IF m1.this.m_pReceiveHandler
                 THEN [m1 EXCEPT !.sink = Append(@,
                          [pData |-> MIDIPacket.pMIDIData,
                           nSize |-> MIDIPacket.nMIDIDataSize,
                           bytes |-> PeekRange(m.this.m_MIDIBuffer, MIDIPacket.pMIDIData,
                                               MIDIPacket.nMIDIDataSize, stale)])]
                 ELSE m1
        ELSE IF SyncPacket.ok
        THEN IF SyncAccepted(m, SyncPacket)
             THEN LET m1 == IF SyncPacket.nCount = 0
                            THEN SendSyncPacket(m, SyncPacket.nTimestamps[1],
                                                U64(GetSyncClock), outcome).m
                            ELSE Write([m EXCEPT !.this.m_nOffsetEstimate =
                                          OffsetEstimate(SyncPacket)],
                                       "Offset estimate")
                  IN  StampSync(m1, SyncPacket)
             ELSE Write(m, "Unexpected sync packet")
        ELSE m

\* mutant: feedback is sent whether or not a new sequence number was received
Feedback_Always(m, nTicks, outcome) ==
    IF nTicks - m.this.m_nLastFeedbackTime > ReceiverFeedbackPeriod
    THEN [SendFeedbackPacket(m, outcome).m
             EXCEPT !.this.m_nLastFeedbackSequence = m.this.m_nSequence,
                    !.this.m_nLastFeedbackTime = nTicks]
    ELSE m

\* the receiver feedback part of ConnectedState
Feedback(m, nTicks, outcome) ==
    IF nTicks - m.this.m_nLastFeedbackTime > ReceiverFeedbackPeriod
    THEN LET m1 == IF m.this.m_nSequence # m.this.m_nLastFeedbackSequence
                   THEN [SendFeedbackPacket(m, outcome).m
                            EXCEPT !.this.m_nLastFeedbackSequence = m.this.m_nSequence]
                   ELSE m
         IN  [m1 EXCEPT !.this.m_nLastFeedbackTime = nTicks]
    ELSE m

\* mutant: the timeout is measured from the last feedback
Timeout_FromFeedback(m, nTicks) ==
    IF nTicks - m.this.m_nLastFeedbackTime > SyncTimeout
    THEN Reset(Write(m, "Initiator timed out"))
    ELSE m

\* the sync timeout part of ConnectedState
Timeout(m, nTicks) ==
    IF nTicks - m.this.m_nLastSyncTime > SyncTimeout
    THEN Reset(Write(m, "Initiator timed out"))
    ELSE m

\* mutant: a BY of any sender ends the session
EndSessionAccepted_Any(m, EndSessionPacket) == TRUE

\* the end session packet is from the initiator
EndSessionAccepted(m, EndSessionPacket) ==
    EndSessionPacket.nSSRC = m.this.m_nInitiatorSSRC

ConnectedState(m, outcome, stale) ==
    LET EndSessionPacket ==
            ParseEndSessionPacket(m.this.m_ControlBuffer, m.this.m_nControlResult)
    IN  IF /\ m.this.m_nControlResult > 0
           /\ EndSessionPacket.ok
           /\ EndSessionAccepted(m, EndSessionPacket)
        THEN Reset(Write(m, "Initiator ended session"))
        ELSE LET m1 == IF m.this.m_nMIDIResult > 0
                       THEN ConnectedMIDI(m, outcome, stale)
                       ELSE m
                 nTicks == GetSyncClock
             IN  Timeout(Feedback(m1, nTicks, outcome), nTicks)

(***************************************************************************)
(* Inputs: the hosts of the network and the datagrams they send.           *)
(***************************************************************************)
\* two hosts: IP address and the source ports of their control and MIDI traffic
HostA == [ip |-> 1, control |-> 5004, midi |-> 5005]
HostB == [ip |-> 2, control |-> 6004, midi |-> 6005]

\* initiator token and SSRC of the two hosts
TokenA == ntohl(<<94, 173, 190, 239>>, 0)
SsrcA == ntohl(<<74, 254, 186, 190>>, 0)
TokenB == ntohl(<<1, 2, 3, 4>>, 0)
SsrcB == ntohl(<<10, 11, 12, 13>>, 0)

\* the values the random number generator may return
RandomNumbers == {287454020, 1432778632}

\* the bytes a read past the received datagram may find in a buffer
StaleBytes == {0, 247}

\* the steps of the clock: none, just over the feedback period, just over the
\* sync timeout
ClockSteps == {ReceiverFeedbackPeriod + 1, SyncTimeout + 1}

SessionPacket(nCommand, nVersion, nToken, nSSRC, name) ==
    htons(AppleMIDISignature) \o htons(nCommand) \o htonl(nVersion)
    \o htonl(nToken) \o htonl(nSSRC) \o name

SyncDatagram(nSSRC, nCount, t1, t2, t3) ==
    htons(AppleMIDISignature) \o htons(Sync) \o htonl(nSSRC) \o <<nCount, 0, 0, 0>>
    \o t1 \o t2 \o t3

\* RTP header (version 2, payload type 0x61), MIDI command header, payload
RTPDatagram(nSequence, nSSRC, nHeader, payload) ==
    <<128, 97>> \o htons(nSequence) \o htonl(0) \o htonl(nSSRC) \o <<nHeader>> \o payload

HostName == <<104, 111, 115, 116, 0>>

InA == SessionPacket(Invitation, 2, TokenA, SsrcA, HostName)
InB == SessionPacket(Invitation, 2, TokenB, SsrcB, <<>>)
InBadVersion == SessionPacket(Invitation, 1, TokenA, SsrcA, HostName)
ByA == SessionPacket(EndSession, 2, TokenA, SsrcA, <<>>)
Ck0A == SyncDatagram(SsrcA, 0, U64(1000), U64Zero, U64Zero)
Ck1A == SyncDatagram(SsrcA, 1, U64(1000), U64(1100), U64Zero)
Ck2A == SyncDatagram(SsrcA, 2, U64(1000), U64(1150), U64(1200))
NoteOn == RTPDatagram(4660, SsrcA, 3, <<144, 60, 127>>)
Garbage == <<0, 1, 2>>

\* ReceiveFrom returned 0: nothing was waiting on the socket
NoDatagram == [ip |-> 0, port |-> 0, data |-> <<>>]

From(host, port, data) == [ip |-> host.ip, port |-> port, data |-> data]

ControlDatagrams ==
    {NoDatagram,
     From(HostA, HostA.control, InA), From(HostB, HostB.control, InB),
     From(HostA, HostA.control, ByA),
     From(HostA, HostA.control, InBadVersion)}

MIDIDatagrams ==
    {NoDatagram,
     From(HostA, HostA.midi, InA), From(HostB, HostB.midi, InB),
     From(HostA, HostA.midi, Ck0A), From(HostA, HostA.midi, Ck1A),
     From(HostA, HostA.midi, Ck2A),
     From(HostA, HostA.midi, NoteOn), From(HostA, HostA.midi, Garbage)}

(***************************************************************************)
(* The loop of Run.                                                        *)
(***************************************************************************)
\* m_pControlSocket->ReceiveFrom(m_ControlBuffer, ..., &m_InitiatorIPAddress,
\* &m_nInitiatorControlPort); the address is written only for a datagram.
\* Of a buffer the model keeps the bytes received in the iteration; what lies
\* behind them is left over from earlier datagrams and is read as a stale byte
ReceiveControl(t, d) ==
    IF d = NoDatagram
    THEN [t EXCEPT !.m_nControlResult = 0, !.m_ControlBuffer = <<>>]
    ELSE [t EXCEPT !.m_nControlResult = Len(d.data),
                   !.m_ControlBuffer = d.data,
                   !.m_InitiatorIPAddress = d.ip,
                   !.m_nInitiatorControlPort = d.port]

ReceiveMIDI(t, d) ==
    IF d = NoDatagram
    THEN [t EXCEPT !.m_nMIDIResult = 0, !.m_MIDIBuffer = <<>>]
    ELSE [t EXCEPT !.m_nMIDIResult = Len(d.data),
                   !.m_MIDIBuffer = d.data,
                   !.m_InitiatorIPAddress = d.ip,
                   !.m_nInitiatorMIDIPort = d.port]

\* the switch on m_State
Dispatch(m, random, outcome, stale) ==
    IF m.this.m_State = "ControlInvitation" THEN ControlInvitationState(m, random, outcome)
    ELSE IF m.this.m_State = "MIDIInvitation" THEN MIDIInvitationState(m, outcome)
    ELSE ConnectedState(m, outcome, stale)

\* one iteration of the loop with both receives succeeding
Iteration(control, midi, random, outcome, stale) ==
    LET m == Dispatch(Machine(ReceiveMIDI(ReceiveControl(this, control), midi)),
                      random, outcome, stale)
    IN  /\ this' = m.this
        /\ sent' = m.sent
        /\ sink' = m.sink
        /\ log' = m.log
        /\ UNCHANGED <<clock, running>>

\* the object after the constructor, RegisterMIDIReceiveHandler and Initialize
Constructed ==
              [m_InitiatorIPAddress |-> 0,
               m_nInitiatorControlPort |-> 0,
               m_nInitiatorMIDIPort |-> 0,
               m_ControlBuffer |-> <<>>,
               m_MIDIBuffer |-> <<>>,
               m_nControlResult |-> 0,
               m_nMIDIResult |-> 0,
               m_pReceiveHandler |-> TRUE,
               m_State |-> "ControlInvitation",
               m_nInitiatorToken |-> 0,
               m_nInitiatorSSRC |-> 0,
               m_nSSRC |-> 0,
               m_nLastMIDISequenceNumber |-> 0,
               m_nOffsetEstimate |-> U64Zero,
               m_nLastSyncTime |-> 0,
               m_nSequence |-> 0,
               m_nLastFeedbackSequence |-> 0,
               m_nLastFeedbackTime |-> 0]

Init ==
    /\ this = Constructed
    /\ clock = 0
    /\ running = TRUE
    /\ sent = <<>>
    /\ sink = <<>>
    /\ log = <<>>

\* the inputs an iteration can tell apart: the random number and the result
\* of SendTo matter only when the handler gets to use them, a stale byte only
\* when ParseMIDIPacket reads one
Attempts(control, midi, stale) ==
    Dispatch(Machine(ReceiveMIDI(ReceiveControl(this, control), midi)),
             0, "ok", stale).sent # <<>>

OutcomesFor(control, midi, stale) ==
    IF Attempts(control, midi, stale) THEN SendOutcomes ELSE {"ok"}

MIDIView(data, stale) ==
    LET p == ParseMIDIPacket(data, Len(data), stale)
    IN  IF p.ok THEN <<p, PeekRange(data, p.pMIDIData, p.nMIDIDataSize, stale)>> ELSE <<p>>

StaleFor(midi) ==
    {s \in StaleBytes :
        \/ s = 0
        \/ midi.data # <<>> /\ MIDIView(midi.data, s) # MIDIView(midi.data, 0)}

\* an iteration in state ControlInvitation
RunControlInvitation ==
    /\ running
    /\ this.m_State = "ControlInvitation"
    /\ \E control \in ControlDatagrams, midi \in MIDIDatagrams :
          \E random \in IF Attempts(control, midi, 0) THEN RandomNumbers ELSE {0},
             outcome \in OutcomesFor(control, midi, 0) :
             Iteration(control, midi, random, outcome, 0)

\* an iteration in state MIDIInvitation
RunMIDIInvitation ==
    /\ running
    /\ this.m_State = "MIDIInvitation"
    /\ \E control \in ControlDatagrams, midi \in MIDIDatagrams :
          \E outcome \in OutcomesFor(control, midi, 0) :
             Iteration(control, midi, 0, outcome, 0)

\* an iteration in state Connected
RunConnected ==
    /\ running
    /\ this.m_State = "Connected"
    /\ \E control \in ControlDatagrams, midi \in MIDIDatagrams :
          \E stale \in StaleFor(midi) :
             \E outcome \in OutcomesFor(control, midi, stale) :
                Iteration(control, midi, 0, outcome, stale)

\* ReceiveFrom on the control socket fails: Run returns
ControlReceiveError ==
    /\ running
    /\ this' = [this EXCEPT !.m_nControlResult = 0 - 1]
    /\ running' = FALSE
    /\ sent' = <<>>
    /\ sink' = <<>>
    /\ log' = <<"Control socket receive error">>
    /\ UNCHANGED clock

\* ReceiveFrom on the MIDI socket fails: Run returns
MIDIReceiveError ==
    /\ running
    /\ \E control \in ControlDatagrams :
          this' = [ReceiveControl(this, control) EXCEPT !.m_nMIDIResult = 0 - 1]
    /\ running' = FALSE
    /\ sent' = <<>>
    /\ sink' = <<>>
    /\ log' = <<"MIDI socket receive error">>
    /\ UNCHANGED clock

\* the number of steps the clock has made
Advances(c) == (c \div (SyncTimeout + 1)) + ((c % (SyncTimeout + 1)) \div (ReceiverFeedbackPeriod + 1))

\* time passes while the task is suspended in Yield
Yield ==
    /\ running
    /\ Advances(clock) < MaxAdvances
    /\ \E d \in ClockSteps : clock' = clock + d
    /\ UNCHANGED <<this, running, sent, sink, log>>

Next ==
    \/ RunControlInvitation
    \/ RunMIDIInvitation
    \/ RunConnected
    \/ ControlReceiveError
    \/ MIDIReceiveError
    \/ Yield

Spec == Init /\ [][Next]_vars

(***************************************************************************)
(* An established session that receives only RTP-MIDI data: the state      *)
(* after host A's invitations on the control and the MIDI socket were      *)
(* accepted at clock 0, and iterations of ConnectedState on the datagrams  *)
(* of a set.                                                               *)
(***************************************************************************)
Accepted(t, control, midi) ==
    Dispatch(Machine(ReceiveMIDI(ReceiveControl(t, control), midi)),
             CHOOSE r \in RandomNumbers : TRUE, "ok", 0)

Established ==
    Accepted(Accepted(Constructed, From(HostA, HostA.control, InA), NoDatagram).this,
             NoDatagram, From(HostA, HostA.midi, InA))

InitSession ==
    /\ clock = 0
    /\ running = TRUE
    /\ this = Established.this
    /\ sent = Established.sent
    /\ sink = Established.sink
    /\ log = Established.log

\* an iteration in state Connected with a datagram of D on the MIDI socket and
\* nothing on the control socket
SessionIteration(D) ==
    /\ running
    /\ this.m_State = "Connected"
    /\ \E midi \in D :
          \E stale \in StaleFor(midi) :
             \E outcome \in OutcomesFor(NoDatagram, midi, stale) :
                Iteration(NoDatagram, midi, 0, outcome, stale)

\* longest MIDI payload of the RTP-MIDI datagrams
MaxPayload == 3

\* a data byte, start of SysEx, end or continuation of SysEx, cancellation
PayloadBytes == {16, 240, 247, 244}

Payloads == UNION {[1 .. n -> PayloadBytes] : n \in 0 .. MaxPayload}

\* the MIDI command header with the length in 4 bits, or in 12 bits (B flag)
ShortHeader(payload) == <<Len(payload)>>
LongHeader(payload) == <<128 + (Len(payload) \div 256), Len(payload) % 256>>

\* RTP-MIDI datagrams of host A with every payload, in both forms of the header
RTPData(nSequence, header, payload) ==
    <<128, 97>> \o htons(nSequence) \o htonl(0) \o htonl(SsrcA) \o header \o payload

CodecDatagrams ==
    {From(HostA, HostA.midi, RTPData(4660, ShortHeader(p), p)) : p \in Payloads}
    \cup {From(HostA, HostA.midi, RTPData(4660, LongHeader(p), p)) : p \in Payloads}

DeliverMIDI == SessionIteration(CodecDatagrams)

SpecCodec == InitSession /\ [][DeliverMIDI]_vars

\* RTP-MIDI datagrams of host A that end before the payload their MIDI command
\* header declares does, and the one that ends before the header
TruncatedDatagrams ==
    {From(HostA, HostA.midi, RTPData(4660, <<>>, <<>>))}
    \cup UNION {{From(HostA, HostA.midi, RTPData(4660, ShortHeader(p), SubSeq(p, 1, k))) :
                   k \in 0 .. Len(p) - 1} : p \in Payloads}
    \cup UNION {{From(HostA, HostA.midi, RTPData(4660, LongHeader(p), SubSeq(p, 1, k))) :
                   k \in 0 .. Len(p) - 1} : p \in Payloads}

DeliverTruncated == SessionIteration(TruncatedDatagrams)

SpecTruncated == InitSession /\ [][DeliverMIDI \/ DeliverTruncated]_vars

\* sequence numbers of the RTP-MIDI datagrams
Sequences == {0, 4660, 65535}

FeedbackDatagrams ==
    {NoDatagram, From(HostA, HostA.midi, Ck0A)}
    \cup {From(HostA, HostA.midi, RTPData(s, <<3>>, <<144, 60, 127>>)) : s \in Sequences}

ReceiveMIDIData == SessionIteration(FeedbackDatagrams)

SpecFeedback == InitSession /\ [][ReceiveMIDIData \/ Yield]_vars

(***************************************************************************)
(* Vocabulary of the properties.  The frames are recognised on the wire    *)
(* bytes, independently of the parsers above.                              *)
(***************************************************************************)
Range(q) == {q[i] : i \in DOMAIN q}

\* a step that is a completed iteration of the loop
Tick == clock' = clock /\ running'

\* IN, OK and BY: signature, command, protocol version 2, token, ssrc
WireSession(d, nCommand) ==
    /\ Len(d) >= 16
    /\ SubSeq(d, 1, 8) = <<255, 255, nCommand \div 256, nCommand % 256, 0, 0, 0, 2>>
WireIN(d) == WireSession(d, Invitation)
WireBY(d) == WireSession(d, EndSession)
WireToken(d) == ntohl(d, 8)
WireSSRC(d) == ntohl(d, 12)

\* CK: 36 bytes, signature, command, sender ssrc, count
WireCK(d) == Len(d) = 36 /\ SubSeq(d, 1, 4) = <<255, 255, 67, 75>>
\* a CK the participant has to accept: from the initiator, count 0 or 2
InitiatorCK(d, nSSRC) == WireCK(d) /\ ntohl(d, 4) = nSSRC /\ d[9] \in {0, 2}

\* RTP-MIDI: version 2, no CSRC, payload type 0x61
WireRTP(d) == Len(d) >= 13 /\ d[1] \div 64 = 2 /\ d[1] % 16 = 0 /\ d[2] = 97

\* the command of a frame the participant sent, and the ssrc it carries
FrameCommand(f) == ntohs(f.data, 2)
FrameSSRC(f) == IF FrameCommand(f) = InvitationAccepted THEN ntohl(f.data, 12)
                ELSE ntohl(f.data, 4)
FullySent(f) == f.result = Len(f.data)

\* the messages logged on the paths that call Reset
ResetMessages ==
    {"Initiator ended session", "Initiator timed out",
     "MIDI port invitation timed out", "Couldn't accept MIDI invitation"}
ResetDone(l) == Range(l) \cap ResetMessages # {}

\* the datagrams of the latest iteration
ControlIn(t) == t.m_nControlResult > 0 /\ WireIN(t.m_ControlBuffer)
MIDIIn(t) == t.m_nMIDIResult > 0 /\ WireIN(t.m_MIDIBuffer)

(***************************************************************************)
(* C1: the state starts as ControlInvitation and changes only by           *)
(* ControlInvitation -> MIDIInvitation on a valid IN on the control        *)
(* socket, MIDIInvitation -> Connected on a valid IN on the MIDI socket,   *)
(* and MIDIInvitation or Connected -> ControlInvitation by Reset; every    *)
(* Reset ends in ControlInvitation; ControlInvitation never goes to        *)
(* Connected.                                                              *)
(***************************************************************************)
C1_StateCycle ==
    /\ this.m_State = "ControlInvitation"
    /\ [][/\ this'.m_State # this.m_State =>
               /\ Tick
               /\ \/ /\ this.m_State = "ControlInvitation"
                     /\ this'.m_State = "MIDIInvitation"
                     /\ ControlIn(this')
                  \/ /\ this.m_State = "MIDIInvitation"
                     /\ this'.m_State = "Connected"
                     /\ MIDIIn(this')
                  \/ /\ this.m_State \in {"MIDIInvitation", "Connected"}
                     /\ this'.m_State = "ControlInvitation"
                     /\ ResetDone(log')
          /\ Tick /\ ResetDone(log') => this'.m_State = "ControlInvitation"]_vars

\* a session was set up and then ended by Reset
C1_Witness ==
    /\ this.m_State = "ControlInvitation"
    /\ "Initiator ended session" \in Range(log)

(***************************************************************************)
(* C2: an IN on the MIDI socket is accepted (state becomes Connected) only *)
(* if it comes from the peer whose control invitation was accepted: it     *)
(* carries the initiator token and SSRC stored from that invitation.       *)
(***************************************************************************)
C2_SamePeer ==
    [][Tick /\ this.m_State = "MIDIInvitation" /\ this'.m_State = "Connected" =>
          /\ WireToken(this'.m_MIDIBuffer) = this.m_nInitiatorToken
          /\ WireSSRC(this'.m_MIDIBuffer) = this.m_nInitiatorSSRC]_vars

(***************************************************************************)
(* C3: an iteration in MIDIInvitation that finds more than SyncTimeout     *)
(* elapsed since the state was entered, and no valid IN on the MIDI        *)
(* socket, resets to ControlInvitation, whatever else was received.        *)
(***************************************************************************)
C3_InvitationTimeout ==
    [][/\ Tick
       /\ this.m_State = "MIDIInvitation"
       /\ clock - this.m_nLastSyncTime > SyncTimeout
       /\ ~MIDIIn(this')
       => this'.m_State = "ControlInvitation"]_vars

(***************************************************************************)
(* C4: an iteration in Connected that finds now - m_nLastSyncTime above    *)
(* SyncTimeout resets to ControlInvitation, whatever was received in it    *)
(* (short of a sync packet of the initiator, which refreshes the time);    *)
(* no iteration leaves the state Connected with the timeout exceeded.  In  *)
(* ControlInvitation a valid IN on the control socket is answered by one   *)
(* OK with the token, and, the OK sent, the state is MIDIInvitation.       *)
(***************************************************************************)
C4_SyncTimeout ==
    [][Tick =>
          /\ this.m_State = "Connected" /\ this'.m_State = "Connected" =>
                clock - this'.m_nLastSyncTime <= SyncTimeout
          /\ /\ this.m_State = "Connected"
             /\ clock - this.m_nLastSyncTime > SyncTimeout
             /\ ~InitiatorCK(this'.m_MIDIBuffer, this.m_nInitiatorSSRC)
             => this'.m_State = "ControlInvitation" /\ ResetDone(log')
          /\ this.m_State = "ControlInvitation" /\ ControlIn(this') =>
                /\ Len(sent') = 1
                /\ FrameCommand(sent'[1]) = InvitationAccepted
                /\ ntohl(sent'[1].data, 8) = WireToken(this'.m_ControlBuffer)
                /\ FullySent(sent'[1]) =>
                      /\ this'.m_State = "MIDIInvitation"
                      /\ this'.m_nLastSyncTime = clock]_vars

\* the sync timeout has reset a session in an iteration that received a datagram
C4_Witness ==
    /\ this.m_State = "ControlInvitation"
    /\ "Initiator timed out" \in Range(log)
    /\ this.m_nMIDIResult > 0

(***************************************************************************)
(* C5: in Connected a BY on the control socket with the initiator's SSRC   *)
(* resets to ControlInvitation in that iteration; any other datagram on    *)
(* the control socket does not end the session: the state stays Connected  *)
(* with the same session identifiers unless the sync timeout expires in    *)
(* that iteration.                                                         *)
(***************************************************************************)
C5_EndSession ==
    [][Tick /\ this.m_State = "Connected" /\ this'.m_nControlResult > 0 =>
          IF /\ WireBY(this'.m_ControlBuffer)
             /\ WireSSRC(this'.m_ControlBuffer) = this.m_nInitiatorSSRC
          THEN /\ this'.m_State = "ControlInvitation"
               /\ log' = <<"Initiator ended session">>
               /\ sent' = <<>>
          ELSE /\ "Initiator ended session" \notin Range(log')
               /\ \/ /\ this'.m_State = "Connected"
                     /\ this'.m_nInitiatorToken = this.m_nInitiatorToken
                     /\ this'.m_nInitiatorSSRC = this.m_nInitiatorSSRC
                     /\ this'.m_nSSRC = this.m_nSSRC
                  \/ /\ this'.m_State = "ControlInvitation"
                     /\ "Initiator timed out" \in Range(log')
                     /\ clock - this.m_nLastSyncTime > SyncTimeout]_vars

\* the initiator's BY has ended a session
C5_Witness ==
    /\ this.m_State = "ControlInvitation"
    /\ log = <<"Initiator ended session">>
    /\ WireBY(this.m_ControlBuffer)

C7_SilentControlInvitation ==
    [][Tick /\ this.m_State = "ControlInvitation" =>
          IF ControlIn(this')
          THEN Len(sent') = 1 /\ FrameCommand(sent'[1]) = InvitationAccepted
          ELSE sent' = <<>>]_vars

\* datagrams on both sockets, none a valid IN on the control socket
C7_Witness ==
    /\ this.m_State = "ControlInvitation"
    /\ log = <<"Unexpected packet">>
    /\ this.m_nControlResult > 0
    /\ this.m_nMIDIResult > 0
    /\ sent = <<>>

(***************************************************************************)
(* C8: m_nSSRC does not change while a session lasts, and every frame sent *)
(* carries the m_nSSRC of the session: the one just minted for the control *)
(* OK, the stored one for the MIDI OK, the CK replies and the RS frames.   *)
(***************************************************************************)
C8_LocalSSRC ==
    [][Tick =>
          /\ this.m_State # "ControlInvitation" /\ this'.m_State # "ControlInvitation" =>
                this'.m_nSSRC = this.m_nSSRC
          /\ \A i \in DOMAIN sent' :
                FrameSSRC(sent'[i]) = IF this.m_State = "ControlInvitation"
                                      THEN this'.m_nSSRC ELSE this.m_nSSRC]_vars

\* a CK reply and an RS frame sent in one iteration of a session
C8_Witness ==
    /\ this.m_State = "Connected"
    /\ Len(sent) = 2
    /\ FrameCommand(sent[1]) = Sync
    /\ FrameCommand(sent[2]) = ReceiverFeedback
    /\ this.m_nSSRC \in RandomNumbers

(***************************************************************************)
(* C9: m_nLastSyncTime never decreases in a step that begins or continues  *)
(* a session.                                                              *)
(***************************************************************************)
C9_SyncTimeMonotonic ==
    [][this'.m_State # "ControlInvitation" =>
          this'.m_nLastSyncTime >= this.m_nLastSyncTime]_vars

\* a sync packet of the initiator was accepted after the clock had advanced
C9_Witness ==
    /\ this.m_State = "Connected"
    /\ InitiatorCK(this.m_MIDIBuffer, this.m_nInitiatorSSRC)
    /\ this.m_nLastSyncTime = clock
    /\ clock > 0

(***************************************************************************)
(* C10: an iteration in which the last received sequence number equals the *)
(* last acknowledged one sends no RS frame; if the feedback period has     *)
(* elapsed in it, m_nLastFeedbackTime becomes the current time and         *)
(* m_nLastFeedbackSequence is unchanged (unless the iteration ends the     *)
(* session by Reset, which zeroes both).  Outside Connected no RS frame is *)
(* sent at all.                                                            *)
(***************************************************************************)
\* m_nSequence after the datagram of the iteration was handled
RxSequence(t, t1) ==
    IF t1.m_nMIDIResult > 0 /\ WireRTP(t1.m_MIDIBuffer)
    THEN ntohs(t1.m_MIDIBuffer, 2) ELSE t.m_nSequence

NoFeedbackIn(q) == \A i \in DOMAIN q : FrameCommand(q[i]) # ReceiverFeedback

C10_NoRepeatedFeedback ==
    [][Tick =>
          /\ this.m_State # "Connected" => NoFeedbackIn(sent')
          /\ /\ this.m_State = "Connected"
             /\ RxSequence(this, this') = this.m_nLastFeedbackSequence
             => /\ NoFeedbackIn(sent')
                /\ clock - this.m_nLastFeedbackTime > ReceiverFeedbackPeriod =>
                      \/ ResetDone(log')
                      \/ /\ this'.m_nLastFeedbackTime = clock
                         /\ this'.m_nLastFeedbackSequence = this.m_nLastFeedbackSequence]_vars

\* the feedback period elapsed in a session that has received no MIDI data
C10_Witness ==
    /\ this.m_State = "Connected"
    /\ this.m_nSequence = 0
    /\ this.m_nLastFeedbackSequence = 0
    /\ this.m_nLastFeedbackTime = clock
    /\ clock > ReceiverFeedbackPeriod
    /\ sent = <<>>

(***************************************************************************)
(* Vocabulary of the properties of the MIDI payload.                       *)
(***************************************************************************)
\* the bytes handed to the receive handler in this iteration
Delivered == sink[1].bytes

\* the payload that ParseMIDIPacket hands on when `payload` arrives in a
\* RTP-MIDI datagram of its own
Refixed(payload) ==
    LET pBuffer == RTPData(4660, ShortHeader(payload), payload)
        MIDIPacket == ParseMIDIPacket(pBuffer, Len(pBuffer), 0)
    IN  PeekRange(pBuffer, MIDIPacket.pMIDIData, MIDIPacket.nMIDIDataSize, 0)

\* a payload between two markers of a SysEx segment
Delimited(payload) ==
    /\ Len(payload) >= 1
    /\ <<payload[1], payload[Len(payload)]>>
          \in {<<240, 240>>, <<247, 240>>, <<247, 247>>, <<247, 244>>}

MIDICk(t) == t.m_nMIDIResult > 0 /\ WireCK(t.m_MIDIBuffer)

SyncFrames(q) == {i \in DOMAIN q : FrameCommand(q[i]) = Sync}

\* an iteration in Connected that handles a CK received on the MIDI socket
HandlesCK ==
    /\ Tick
    /\ this.m_State = "Connected"
    /\ MIDICk(this')
    /\ "Initiator ended session" \notin Range(log')

C12_SyncAcceptance ==
    [][HandlesCK =>
          IF InitiatorCK(this'.m_MIDIBuffer, this.m_nInitiatorSSRC)
          THEN /\ this'.m_nLastSyncTime = clock
               /\ this'.m_State = "Connected"
               /\ "Unexpected sync packet" \notin Range(log')
          ELSE /\ "Unexpected sync packet" \in Range(log')
               /\ SyncFrames(sent') = {}
               /\ \/ ResetDone(log')
                  \/ /\ this'.m_nLastSyncTime = this.m_nLastSyncTime
                     /\ this'.m_nOffsetEstimate = this.m_nOffsetEstimate]_vars

\* a CK with count 0 and an SSRC other than the initiator's was rejected after
\* the clock had advanced
C12_Witness ==
    /\ this.m_State = "Connected"
    /\ MIDICk(this)
    /\ this.m_MIDIBuffer[9] = 0
    /\ ntohl(this.m_MIDIBuffer, 4) # this.m_nInitiatorSSRC
    /\ "Unexpected sync packet" \in Range(log)
    /\ this.m_nLastSyncTime < clock
    /\ sent = <<>>

(***************************************************************************)
(* C13: an accepted CK with count 0 and first timestamp t is answered by   *)
(* exactly one CK with count 1, the local SSRC, first timestamp t, second  *)
(* timestamp the local clock and third timestamp zero; an accepted CK with *)
(* count 2 is not answered and sets m_nOffsetEstimate to                   *)
(* ((timestamp3 + timestamp1) / 2) - timestamp2 in u64 arithmetic.         *)
(***************************************************************************)
C13_SyncReply ==
    [][HandlesCK /\ InitiatorCK(this'.m_MIDIBuffer, this.m_nInitiatorSSRC) =>
          LET d == this'.m_MIDIBuffer
          IN  IF d[9] = 0
              THEN /\ Cardinality(SyncFrames(sent')) = 1
                   /\ \A i \in SyncFrames(sent') :
                         sent'[i].data = <<255, 255, 67, 75>> \o htonl(this.m_nSSRC)
                                         \o <<1, 0, 0, 0>> \o SubSeq(d, 13, 20)
                                         \o U64(clock) \o U64Zero
                   /\ this'.m_nOffsetEstimate = this.m_nOffsetEstimate
              ELSE /\ SyncFrames(sent') = {}
                   /\ this'.m_nOffsetEstimate =
                         U64Sub(U64Half(U64Add(SubSeq(d, 29, 36), SubSeq(d, 13, 20))),
                                SubSeq(d, 21, 28))]_vars

\* the CK with timestamps 1000, 1150, 1200 was accepted: the estimate is
\* 1100 - 1150 = -50 modulo 2^64
C13_Witness ==
    /\ this.m_State = "Connected"
    /\ InitiatorCK(this.m_MIDIBuffer, this.m_nInitiatorSSRC)
    /\ this.m_MIDIBuffer[9] = 2
    /\ "Offset estimate" \in Range(log)
    /\ this.m_nOffsetEstimate = <<255, 255, 255, 255, 255, 255, 255, 206>>
    /\ SyncFrames(sent) = {}

(***************************************************************************)
(* C14: feedback for a received sequence number.  RxSequence is the        *)
(* sequence number of the latest RTP-MIDI datagram after the iteration has *)
(* handled its datagram; the feedback is due in an iteration that finds    *)
(* the feedback period elapsed.                                            *)
(***************************************************************************)
MIDIRtp(t) == t.m_nMIDIResult > 0 /\ WireRTP(t.m_MIDIBuffer)

FeedbackFrames(q) == {i \in DOMAIN q : FrameCommand(q[i]) = ReceiverFeedback}

\* an iteration in Connected that finds the feedback period elapsed
FeedbackDue ==
    /\ Tick
    /\ this.m_State = "Connected"
    /\ clock - this.m_nLastFeedbackTime > ReceiverFeedbackPeriod

\* one RS frame with the local SSRC and nSequence << 16 is sent, and the
\* sequence number is recorded (unless the sync timeout then resets the session)
FeedbackSentFor(nSequence) ==
    /\ Cardinality(FeedbackFrames(sent')) = 1
    /\ \A i \in FeedbackFrames(sent') :
          sent'[i].data = <<255, 255, 82, 83>> \o htonl(this.m_nSSRC)
                          \o <<nSequence \div 256, nSequence % 256, 0, 0>>
    /\ \/ ResetDone(log')
       \/ this'.m_nLastFeedbackSequence = nSequence

\* C14 as stated: whatever the sequence number s of a received RTP-MIDI
\* datagram, the iteration that finds the feedback period elapsed with s the
\* latest sequence number (received in it, or before it and not acknowledged)
\* sends the RS frame for s.
C14_FeedbackForEverySequence ==
    [][/\ FeedbackDue
       /\ MIDIRtp(this') \/ this.m_nSequence # this.m_nLastFeedbackSequence
       => FeedbackSentFor(RxSequence(this, this'))]_vars

\* C14: for every sequence number s other than m_nLastFeedbackSequence, the
\* iteration in Connected that finds the feedback period elapsed with s the
\* latest received sequence number sends one RS frame with the local SSRC and
\* s << 16, and m_nLastFeedbackSequence becomes s.
C14_FeedbackForNewSequence ==
    [][/\ FeedbackDue
       /\ RxSequence(this, this') # this.m_nLastFeedbackSequence
       => FeedbackSentFor(RxSequence(this, this'))]_vars

\* sequence number 65535 was received, and acknowledged by a later iteration
\* without a datagram once the period had elapsed
C14_Witness ==
    /\ this.m_State = "Connected"
    /\ this.m_nMIDIResult = 0
    /\ this.m_nSequence = 65535
    /\ this.m_nLastFeedbackSequence = 65535
    /\ this.m_nLastFeedbackTime = clock
    /\ Len(sent) = 1
    /\ sent[1].data = <<255, 255, 82, 83>> \o htonl(this.m_nSSRC) \o <<255, 255, 0, 0>>

(***************************************************************************)
(* C15: an iteration in which a send fails (SendTo returns a negative or a *)
(* short count) leaves the state and m_nInitiatorToken, m_nInitiatorSSRC,  *)
(* m_nSSRC, m_nLastSyncTime and m_nLastFeedbackSequence as they were       *)
(* before the iteration.                                                   *)
(***************************************************************************)
SendFailed(q) == \E i \in DOMAIN q : ~FullySent(q[i])

C15_FailedSendLeavesState ==
    [][Tick /\ SendFailed(sent') =>
          /\ this'.m_State = this.m_State
          /\ this'.m_nInitiatorToken = this.m_nInitiatorToken
          /\ this'.m_nInitiatorSSRC = this.m_nInitiatorSSRC
          /\ this'.m_nSSRC = this.m_nSSRC
          /\ this'.m_nLastSyncTime = this.m_nLastSyncTime
          /\ this'.m_nLastFeedbackSequence = this.m_nLastFeedbackSequence]_vars

(***************************************************************************)
(* C16: the OK that answers a valid IN on the MIDI socket in               *)
(* MIDIInvitation is sent through the MIDI socket to the port the IN came  *)
(* from, and, the OK sent, the state is Connected with m_nLastSyncTime the *)
(* current time.                                                           *)
(***************************************************************************)
C16_MIDIAcceptOnMIDISocket ==
    [][Tick /\ this.m_State = "MIDIInvitation" /\ MIDIIn(this') =>
          /\ Len(sent') = 1
          /\ FrameCommand(sent'[1]) = InvitationAccepted
          /\ sent'[1].socket = "midi"
          /\ sent'[1].port = this'.m_nInitiatorMIDIPort
          /\ FullySent(sent'[1]) =>
                /\ this'.m_State = "Connected"
                /\ this'.m_nLastSyncTime = clock]_vars

(***************************************************************************)
(* C17: every OK carries the token of the IN it answers: the OK sent in    *)
(* ControlInvitation the token of the IN received on the control socket,   *)
(* the OK sent in MIDIInvitation the token of the IN received on the MIDI  *)
(* socket.                                                                 *)
(***************************************************************************)
C17_TokenEchoed ==
    [][Tick =>
          \A i \in DOMAIN sent' :
             FrameCommand(sent'[i]) = InvitationAccepted =>
                ntohl(sent'[i].data, 8) =
                   IF this.m_State = "ControlInvitation"
                   THEN WireToken(this'.m_ControlBuffer)
                   ELSE WireToken(this'.m_MIDIBuffer)]_vars

(***************************************************************************)
(* C18: in ControlInvitation a datagram on the control socket that is not  *)
(* a well-formed IN is ignored: the state stays ControlInvitation, nothing *)
(* is sent, and the peer address, the peer's control port,                 *)
(* m_nInitiatorToken, m_nInitiatorSSRC and m_nSSRC are after the iteration *)
(* what they were before it.                                               *)
(***************************************************************************)
C18_MalformedControlIgnored ==
    [][/\ Tick
       /\ this.m_State = "ControlInvitation"
       /\ this'.m_nControlResult > 0
       /\ ~WireIN(this'.m_ControlBuffer)
       => /\ this'.m_State = "ControlInvitation"
          /\ sent' = <<>>
          /\ this'.m_InitiatorIPAddress = this.m_InitiatorIPAddress
          /\ this'.m_nInitiatorControlPort = this.m_nInitiatorControlPort
          /\ this'.m_nInitiatorToken = this.m_nInitiatorToken
          /\ this'.m_nInitiatorSSRC = this.m_nInitiatorSSRC
          /\ this'.m_nSSRC = this.m_nSSRC]_vars

(***************************************************************************)
(* C20: while a session lasts (MIDIInvitation or Connected) no iteration,  *)
(* whatever it receives and from whom, changes the peer address, the       *)
(* peer's control port, the peer's MIDI port once connected,               *)
(* m_nInitiatorToken or m_nInitiatorSSRC, and every frame sent in it is    *)
(* addressed to the peer address (in Connected: and to the peer's MIDI     *)
(* port) the session had before the iteration.                             *)
(***************************************************************************)
C20_SessionTupleKept ==
    [][Tick /\ this.m_State # "ControlInvitation" =>
          /\ this'.m_State # "ControlInvitation" =>
                /\ this'.m_InitiatorIPAddress = this.m_InitiatorIPAddress
                /\ this'.m_nInitiatorControlPort = this.m_nInitiatorControlPort
                /\ this.m_State = "Connected" =>
                      this'.m_nInitiatorMIDIPort = this.m_nInitiatorMIDIPort
                /\ this'.m_nInitiatorToken = this.m_nInitiatorToken
                /\ this'.m_nInitiatorSSRC = this.m_nInitiatorSSRC
          /\ \A i \in DOMAIN sent' :
                /\ sent'[i].ip = this.m_InitiatorIPAddress
                /\ this.m_State = "Connected" =>
                      sent'[i].port = this.m_nInitiatorMIDIPort]_vars

(***************************************************************************)
(* C19: the payload handed to the receive handler for a RTP-MIDI datagram  *)
(* with a payload of declared length L: head F0 and tail F0, the first     *)
(* L - 1 bytes; head F7 and tail F0, the L - 2 bytes between them; head F7 *)
(* and tail F7, the last L - 1 bytes; head F7 and tail F4, the single byte *)
(* F4; any other head and tail, the payload unchanged.                     *)
(***************************************************************************)
\* the payload of a RTP-MIDI datagram as its MIDI command header declares it
WirePayload(d) ==
    IF d[13] >= 128
    THEN SubSeq(d, 15, 14 + ((d[13] % 16) * 256) + d[14])
    ELSE SubSeq(d, 14, 13 + (d[13] % 16))

SpecifiedFixup(payload) ==
    LET L == Len(payload)
    IN  IF L = 0 THEN payload
        ELSE IF payload[1] = 240 /\ payload[L] = 240 THEN SubSeq(payload, 1, L - 1)
        ELSE IF payload[1] = 247 /\ payload[L] = 240 THEN SubSeq(payload, 2, L - 1)
        ELSE IF payload[1] = 247 /\ payload[L] = 247 THEN SubSeq(payload, 2, L)
        ELSE IF payload[1] = 247 /\ payload[L] = 244 THEN <<244>>
        ELSE payload

C19_FixupOutput ==
    sink # <<>> => /\ Len(sink) = 1
                   /\ Delivered = SpecifiedFixup(WirePayload(this.m_MIDIBuffer))

(***************************************************************************)
(* C21: for every RTP-MIDI datagram that ParseMIDIPacket accepts, the      *)
(* bytes handed to the receive handler lie inside the received bytes of    *)
(* the datagram, after its MIDI command header, and are no more than the   *)
(* header declares, whatever the header and the length of the datagram.    *)
(***************************************************************************)
\* the MIDI command header was received in full
HeaderReceived(d) == Len(d) >= 13 /\ (d[13] >= 128 => Len(d) >= 14)

\* the length the MIDI command header declares
DeclaredLength(d) ==
    IF d[13] >= 128 THEN ((d[13] % 16) * 256) + d[14] ELSE d[13] % 16

C21_DeliveredInsideDatagram ==
    \A i \in DOMAIN sink :
       /\ sink[i].nSize > 0 =>
             /\ sink[i].pData >= 13
             /\ sink[i].pData + sink[i].nSize <= this.m_nMIDIResult
       /\ HeaderReceived(this.m_MIDIBuffer) =>
             sink[i].nSize <= DeclaredLength(this.m_MIDIBuffer)

====
